---- MODULE Spec2Model ----
(***************************************************************************)
(* Quest assembly and validation engine of scum-quest-web.                 *)
(*                                                                         *)
(* The form (QuestBuilderForm.tsx) holds the authoring state in            *)
(* react-hook-form; on every change its transform effect derives a draft   *)
(* with a fresh QuestBuilder, hands it to the Schema and reports the       *)
(* built Quest or null to App (App.tsx), and the error strings to the      *)
(* validation panel.                                                       *)
(*                                                                         *)
(* JavaScript values are records [k, n, s]; a string is the sequence of    *)
(* its characters, so that trim() and truthiness are computed.  Optional   *)
(* arrays at the top of the form are records [k, a].  The nested arrays    *)
(* (skills, tradeDeals, items) are plain sequences: every test the code    *)
(* makes on them treats an absent array as an empty one.                   *)
(***************************************************************************)
EXTENDS Integers, Sequences, FiniteSets, TLC

(* ----------------------------- bounds ---------------------------------- *)
MaxRewards == 2
MaxConditions == 2
MaxRenders == 2
MaxLoads == 2
MaxAdds == 2

(* ------------------------------ state ---------------------------------- *)
VARIABLES
    watchedValues,     \* the form values (AuthoringState snapshot)
    quest,             \* App state: the Quest shown in the JSON panel, or Null
    validationErrors,  \* the form's validationErrors state
    questBuilder,      \* the builder of the latest transform run
    pipeline,          \* how the latest transform run ended
    before,            \* how the run before the latest ended
    fault,             \* an error that escaped the effect, or "none"
    renders,           \* effect runs counted on a fixed snapshot (SpecSnapshot)
    onLoadQuest,       \* JsonPreview prop: "undefined", or "given" by its parent
    isLoading,         \* JsonPreview state: the editor is open for a paste
    loadError,         \* JsonPreview state: the load error shown, or Null
    editorValue,       \* JsonPreview state: the text typed into the editor
    loaded,            \* the Quests delivered to onLoadQuest, in call order
    returned           \* the latest call on a QuestBuilder and what it returned

vars ==
    <<watchedValues, quest, validationErrors, questBuilder, pipeline, before,
      fault, renders, onLoadQuest, isLoading, loadError, editorValue, loaded,
      returned>>

\* the state of the form and of App
form ==
    <<watchedValues, quest, validationErrors, questBuilder, pipeline, before,
      fault, renders>>

\* the props and the state of JsonPreview
panel == <<onLoadQuest, isLoading, loadError, editorValue, loaded>>

(* ------------------------- JavaScript values --------------------------- *)
Undefined == [k |-> "undefined", n |-> 0, s |-> <<>>]
NaN == [k |-> "NaN", n |-> 0, s |-> <<>>]
Num(n) == [k |-> "number", n |-> n, s |-> <<>>]
Str(s) == [k |-> "string", n |-> 0, s |-> s]
Bool(b) == [k |-> "boolean", n |-> IF b THEN 1 ELSE 0, s |-> <<>>]

\* ToBoolean: undefined, NaN, 0, "" and false are falsy.
Truthy(v) ==
    \/ v.k = "number" /\ v.n # 0
    \/ v.k = "string" /\ v.s # <<>>
    \/ v.k = "boolean" /\ v.n = 1

\* v > 0 : false for undefined and NaN.
Gt(v, m) == v.k = "number" /\ v.n > m
Ge(v, m) == v.k = "number" /\ v.n >= m

\* the value handed on whatever it is
PassedAsIs(v) == v

\* v && v > 0 ? v : undefined
PositiveOrUndefined(v) == IF Truthy(v) /\ Gt(v, 0) THEN v ELSE Undefined

RECURSIVE TrimStart(_)
TrimStart(s) == IF s # <<>> /\ Head(s) = " " THEN TrimStart(Tail(s)) ELSE s

RECURSIVE TrimEnd(_)
TrimEnd(s) ==
    IF s # <<>> /\ s[Len(s)] = " " THEN TrimEnd(SubSeq(s, 1, Len(s) - 1)) ELSE s

\* String.prototype.trim
Trim(v) == Str(TrimEnd(TrimStart(v.s)))

Arr(a) == [k |-> "array", a |-> a]
UndefinedArr == [k |-> "undefined", a |-> <<>>]

Null == <<>>
Some(q) == <<q>>

(* ------------------------------ strings -------------------------------- *)
Empty == Str(<<>>)
Blank == Str(<<" ">>)
Apple == Str(<<"A", "p", "p", "l", "e">>)
GetApples == Str(<<"G", "e", "t">>)
BringApples == Str(<<"B", "r", "i", "n", "g">>)
Axe == Str(<<"A", "x", "e">>)
Puppet == Str(<<"P", "u", "p">>)
Door == Str(<<"D", "o", "o", "r">>)
Caption == Str(<<"c", "a", "p">>)
Bartender == Str(<<"B", "a", "r">>)
Cooking == Str(<<"C", "o", "o", "k">>)

(* ------------------- QuestBuilder (lib/builders) ----------------------- *)
\* An exception raised while a builder chain runs is carried in `thrown`
\* (Null when none); every later call of the chain is skipped, as it is when
\* the exception unwinds to the enclosing catch.
Thrown(name, message) == Some([name |-> name, message |-> message])

EmptyDraft ==
    [AssociatedNpc |-> Undefined, Tier |-> Undefined, Title |-> Undefined,
     Description |-> Undefined, TimeLimitHours |-> Undefined,
     RewardPool |-> <<>>, Conditions |-> <<>>]

\* the builder of the run before, kept and used again
ReusedQuestBuilder == questBuilder

\* new QuestBuilder(): quest = { RewardPool: [], Conditions: [] }
NewQuestBuilder == [quest |-> EmptyDraft, thrown |-> Null]

withNPC(b, npc) == [b EXCEPT !.quest.AssociatedNpc = npc]
withTier(b, tier) == [b EXCEPT !.quest.Tier = tier]
withTitle(b, title) == [b EXCEPT !.quest.Title = title]
withDescription(b, description) == [b EXCEPT !.quest.Description = description]
withTimeLimit(b, hours) == [b EXCEPT !.quest.TimeLimitHours = hours]

(* ------------- ConditionBuilder, RewardBuilder (library) --------------- *)
NewConditionBuilder ==
    [condition |->
        [Type |-> "", SequenceIndex |-> Undefined, Items |-> <<>>,
         InteractionObject |-> Undefined, CanBeAutoCompleted |-> Bool(FALSE),
         TrackingCaption |-> Undefined],
     thrown |-> Null]

asFetch(c) == [c EXCEPT !.condition.Type = "Fetch"]
asElimination(c) == [c EXCEPT !.condition.Type = "Elimination"]
asInteraction(c) == [c EXCEPT !.condition.Type = "Interaction"]

withSequenceIndex(c, i) ==
    IF c.thrown # Null THEN c ELSE [c EXCEPT !.condition.SequenceIndex = i]
autoComplete(c) ==
    IF c.thrown # Null THEN c
    ELSE [c EXCEPT !.condition.CanBeAutoCompleted = Bool(TRUE)]
withCaption(c, caption) ==
    IF c.thrown # Null THEN c ELSE [c EXCEPT !.condition.TrackingCaption = caption]

Misuse == Thrown("Error", <<"condition builder misuse">>)

\* One {name, amount} entry per name; a builder of another kind fails loudly.
KindItems(c, kind, names, amount) ==
    IF c.thrown # Null THEN c
    ELSE IF c.condition.Type # kind THEN [c EXCEPT !.thrown = Misuse]
    ELSE [c EXCEPT !.condition.Items =
            @ \o [i \in 1..Len(names) |-> [name |-> names[i], amount |-> amount]]]

requireItems(c, names, amount) == KindItems(c, "Fetch", names, amount)
eliminateTargets(c, names, amount) == KindItems(c, "Elimination", names, amount)

NewRewardBuilder ==
    [CurrencyNormal |-> Undefined, CurrencyGold |-> Undefined, Fame |-> Undefined,
     Skills |-> <<>>, TradeDeals |-> <<>>]

currency(r, normal, gold, fame) ==
    [r EXCEPT !.CurrencyNormal = normal, !.CurrencyGold = gold, !.Fame = fame]
addSkill(r, skill, experience) ==
    [r EXCEPT !.Skills = Append(@, [Skill |-> skill, Experience |-> experience])]
addTradeDeal(r, item, opts) ==
    [r EXCEPT !.TradeDeals =
        Append(@, [Item |-> item, Price |-> opts.Price, Amount |-> opts.Amount,
                   Fame |-> opts.Fame, AllowExcluded |-> opts.AllowExcluded])]

(* ------------------------------ Schema --------------------------------- *)
\* QuestSchema of the library, after the data model: the issues of a draft,
\* in field order.  An issue is [path, message].
NPCs == {Bartender}
IndexName(i) == <<"0", "1", "2", "3", "4", "5", "6", "7">>[i]

Issue(path, message) == [path |-> path, message |-> message]
IssueIf(cond, path, message) == IF cond THEN <<Issue(path, message)>> ELSE <<>>

RECURSIVE Concat(_)
Concat(ss) == IF ss = <<>> THEN <<>> ELSE Head(ss) \o Concat(Tail(ss))

IsNonEmptyString(v) == v.k = "string" /\ Trim(v).s # <<>>
OptionalAtLeast(v, m) == v = Undefined \/ Ge(v, m)

SkillIssues(path, sk) ==
    IssueIf(~Ge(sk.Experience, 1), path \o <<"Experience">>, "Too small")

TradeDealIssues(path, td) ==
    IssueIf(~IsNonEmptyString(td.Item), path \o <<"Item">>, "Too small")
    \o IssueIf(~OptionalAtLeast(td.Price, 0), path \o <<"Price">>, "Too small")
    \o IssueIf(~OptionalAtLeast(td.Amount, 1), path \o <<"Amount">>, "Too small")
    \o IssueIf(~OptionalAtLeast(td.Fame, 0), path \o <<"Fame">>, "Too small")

RewardIssues(path, r) ==
    IssueIf(~OptionalAtLeast(r.CurrencyNormal, 0), path \o <<"CurrencyNormal">>, "Too small")
    \o IssueIf(~OptionalAtLeast(r.CurrencyGold, 0), path \o <<"CurrencyGold">>, "Too small")
    \o IssueIf(~OptionalAtLeast(r.Fame, 0), path \o <<"Fame">>, "Too small")
    \o Concat([i \in 1..Len(r.Skills) |->
                SkillIssues(path \o <<"Skills", IndexName(i)>>, r.Skills[i])])
    \o Concat([i \in 1..Len(r.TradeDeals) |->
                TradeDealIssues(path \o <<"TradeDeals", IndexName(i)>>, r.TradeDeals[i])])

ItemIssues(path, it) ==
    IssueIf(~IsNonEmptyString(it.name), path \o <<"name">>, "Too small")
    \o IssueIf(~Ge(it.amount, 1), path \o <<"amount">>, "Too small")

ConditionIssues(path, c) ==
    IssueIf(~Ge(c.SequenceIndex, 0), path \o <<"SequenceIndex">>, "Too small")
    \o (IF c.Type \in {"Fetch", "Elimination"}
        THEN IssueIf(c.Items = <<>>, path \o <<"Items">>, "Too small")
             \o Concat([i \in 1..Len(c.Items) |->
                         ItemIssues(path \o <<"Items", IndexName(i)>>, c.Items[i])])
        ELSE IF c.Type = "Interaction"
        THEN IssueIf(~IsNonEmptyString(c.InteractionObject),
                     path \o <<"InteractionObject">>, "Required")
        ELSE <<Issue(path \o <<"Type">>, "Invalid discriminator")>>)

QuestSchemaIssues(q) ==
    IssueIf(q.AssociatedNpc \notin NPCs, <<"AssociatedNpc">>, "Invalid enum value")
    \o IssueIf(~(Ge(q.Tier, 1) /\ q.Tier.n <= 3), <<"Tier">>, "Invalid input")
    \o IssueIf(~IsNonEmptyString(q.Title), <<"Title">>, "Too small")
    \o IssueIf(~IsNonEmptyString(q.Description), <<"Description">>, "Too small")
    \o IssueIf(~(q.TimeLimitHours = Undefined \/ Gt(q.TimeLimitHours, 0)),
               <<"TimeLimitHours">>, "Too small")
    \o IssueIf(q.RewardPool = <<>>, <<"RewardPool">>, "Too small")
    \o Concat([i \in 1..Len(q.RewardPool) |->
                RewardIssues(<<"RewardPool", IndexName(i)>>, q.RewardPool[i])])
    \o IssueIf(q.Conditions = <<>>, <<"Conditions">>, "Too small")
    \o Concat([i \in 1..Len(q.Conditions) |->
                ConditionIssues(<<"Conditions", IndexName(i)>>, q.Conditions[i])])

\* issue.path.join(".")
RECURSIVE Join(_)
Join(path) ==
    IF path = <<>> THEN <<>>
    ELSE IF Len(path) = 1 THEN path
    ELSE <<Head(path), ".">> \o Join(Tail(path))

\* `${issue.path.join(".")}: ${issue.message}` (QuestBuilder.validate)
FormatIssue(issue) == Join(issue.path) \o <<": ", issue.message>>

\* ZodError.message: the issue list serialised as one JSON text.
ZodMessage(issues) ==
    <<"[">>
    \o Concat([i \in 1..Len(issues) |->
                <<"{path:">> \o issues[i].path \o <<"message:", issues[i].message, "}">>])
    \o <<"]">>

\* QuestBuilder.validate(): safeParse, the issues mapped to strings.
validate(b) ==
    LET issues == QuestSchemaIssues(b.quest) IN
    IF issues = <<>> THEN [success |-> TRUE, errors |-> <<>>]
    ELSE [success |-> FALSE,
          errors |-> [i \in 1..Len(issues) |-> FormatIssue(issues[i])]]

\* a build that hands the draft back without parsing it
buildUnchecked(b) == [quest |-> Some(b.quest), thrown |-> Null]

\* QuestBuilder.build(): QuestSchema.parse(this.quest) returns the Quest or
\* throws a ZodError.
build(b) ==
    LET issues == QuestSchemaIssues(b.quest) IN
    IF issues = <<>> THEN [quest |-> Some(b.quest), thrown |-> Null]
    ELSE [quest |-> Null, thrown |-> Thrown("ZodError", ZodMessage(issues))]

(* ------------------ QuestBuilderForm: authoring state ------------------ *)
\* useForm defaultValues
defaultValues ==
    [AssociatedNpc |-> Bartender, Tier |-> Num(1), Title |-> Empty,
     Description |-> Empty, TimeLimitHours |-> Undefined,
     RewardPool |-> Arr(<<>>), Conditions |-> Arr(<<>>)]

\* RewardBuilder.tsx addReward: the fragment appended by "Add Reward Pool"
EmptyReward ==
    [currencyNormal |-> Undefined, currencyGold |-> Undefined, fame |-> Undefined,
     skills |-> <<>>, tradeDeals |-> <<>>]

\* ConditionBuilder.tsx addCondition: the fragment appended by "Add Condition"
EmptyCondition ==
    [type |-> "Fetch", sequenceIndex |-> Num(0), items |-> <<>>,
     interactionObject |-> Undefined, canBeAutoCompleted |-> Bool(FALSE),
     trackingCaption |-> Empty]

(* ---------------------- transform effect: rewards ---------------------- *)
\* x && x > 0
Positive(x) == Truthy(x) /\ Gt(x, 0)

\* lines 231-236 and 292-297: the inclusion test of a reward fragment
hasAnything(reward) ==
    \/ Positive(reward.currencyNormal)
    \/ Positive(reward.currencyGold)
    \/ Positive(reward.fame)
    \/ Len(reward.skills) > 0
    \/ Len(reward.tradeDeals) > 0

hasCurrency(reward) ==
    \/ Positive(reward.currencyNormal)
    \/ Positive(reward.currencyGold)
    \/ Positive(reward.fame)

RECURSIVE AddSkills(_, _)
AddSkills(builder, skills) ==
    IF skills = <<>> THEN builder
    ELSE LET skill == Head(skills) IN
         AddSkills(
            IF Truthy(skill.skill) /\ Truthy(skill.experience) /\ Gt(skill.experience, 0)
            THEN addSkill(builder, skill.skill, skill.experience)
            ELSE builder,
            Tail(skills))

RECURSIVE AddTradeDeals(_, _)
AddTradeDeals(builder, tradeDeals) ==
    IF tradeDeals = <<>> THEN builder
    ELSE LET trade == Head(tradeDeals) IN
         AddTradeDeals(
            IF Truthy(trade.item) /\ Truthy(Trim(trade.item))
            THEN addTradeDeal(builder, trade.item,
                    [Price |-> PositiveOrUndefined(trade.price),
                     Amount |-> PositiveOrUndefined(trade.amount),
                     Fame |-> IF Truthy(trade.fame) /\ Ge(trade.fame, 0)
                              THEN trade.fame ELSE Undefined,
                     AllowExcluded |-> trade.allowExcluded])
            ELSE builder,
            Tail(tradeDeals))

\* the callback given to addReward (lines 240-286)
RewardCallback(reward, rewardBuilder) ==
    LET b1 == IF hasCurrency(reward)
              THEN currency(rewardBuilder,
                            PositiveOrUndefined(reward.currencyNormal),
                            PositiveOrUndefined(reward.currencyGold),
                            PositiveOrUndefined(reward.fame))
              ELSE rewardBuilder
        b2 == AddSkills(b1, reward.skills)
    IN AddTradeDeals(b2, reward.tradeDeals)

\* an addReward that hands the callback the reward built by the call before
\* instead of a new RewardBuilder
addRewardShared(b, builderFn) ==
    IF b.thrown # Null THEN b
    ELSE [b EXCEPT !.quest.RewardPool =
            Append(@, RewardCallback(builderFn.arg,
                        IF @ = <<>> THEN NewRewardBuilder ELSE @[Len(@)]))]

\* A callback handed to a builder is the pair of its code and the fragment it
\* closes over; the builder applies it to the sub-builder it created.
\* QuestBuilder.addReward: this.quest.RewardPool.push(builderFn(new
\* RewardBuilder()).build())
addReward(b, builderFn) ==
    IF b.thrown # Null THEN b
    ELSE [b EXCEPT !.quest.RewardPool =
            Append(@, RewardCallback(builderFn.arg, NewRewardBuilder))]

\* QuestBuilder.addCurrencyReward
addCurrencyReward(b, normal, gold, fame) ==
    IF b.thrown # Null THEN b
    ELSE [b EXCEPT !.quest.RewardPool =
            Append(@, currency(NewRewardBuilder, normal, gold, fame))]

\* watchedValues.RewardPool.forEach (lines 230-288)
RECURSIVE AddRewards(_, _)
AddRewards(b, rewards) ==
    IF rewards = <<>> THEN b
    ELSE LET reward == Head(rewards) IN
         AddRewards(
            IF hasAnything(reward)
            THEN addReward(b, [fn |-> "reward", arg |-> reward])
            ELSE b,
            Tail(rewards))

\* every() where the code calls some()
hasValidRewardsEvery(rewards) == \A i \in 1..Len(rewards) : hasAnything(rewards[i])

\* lines 291-298
hasValidRewards(rewards) == \E i \in 1..Len(rewards) : hasAnything(rewards[i])

(* --------------------- transform effect: conditions -------------------- *)
RECURSIVE RequireEach(_, _)
RequireEach(builder, items) ==
    IF items = <<>> THEN builder
    ELSE RequireEach(requireItems(builder, <<Head(items).name>>, Head(items).amount),
                     Tail(items))

RECURSIVE EliminateEach(_, _)
EliminateEach(builder, items) ==
    IF items = <<>> THEN builder
    ELSE EliminateEach(eliminateTargets(builder, <<Head(items).name>>, Head(items).amount),
                       Tail(items))

\* lines 314-319, 335-340, 351-356
CommonOptions(condition, builder) ==
    LET b1 == IF Truthy(condition.canBeAutoCompleted) THEN autoComplete(builder)
              ELSE builder
    IN IF Truthy(condition.trackingCaption)
       THEN withCaption(b1, condition.trackingCaption) ELSE b1

FetchCallback(condition, c) ==
    CommonOptions(condition,
        RequireEach(withSequenceIndex(c, condition.sequenceIndex), condition.items))

EliminationCallback(condition, c) ==
    CommonOptions(condition,
        EliminateEach(withSequenceIndex(c, condition.sequenceIndex), condition.items))

InteractionCallback(condition, c) ==
    CommonOptions(condition, withSequenceIndex(c, condition.sequenceIndex))

\* lines 363-365
DefaultCondition(c) == requireItems(withSequenceIndex(c, Num(0)), <<Apple>>, Num(1))

\* the callback builderFn applied to the condition builder c
ApplyCallback(builderFn, c) ==
    CASE builderFn.fn = "fetch" -> FetchCallback(builderFn.arg, c)
      [] builderFn.fn = "elimination" -> EliminationCallback(builderFn.arg, c)
      [] builderFn.fn = "interaction" -> InteractionCallback(builderFn.arg, c)
      [] builderFn.fn = "default" -> DefaultCondition(c)
      [] builderFn.fn = "seeded" -> DefaultCondition(asFetch(c))

\* the finished condition put in front of the sequence instead of at its end
UnshiftCondition(b, finalBuilder) ==
    IF finalBuilder.thrown # Null THEN [b EXCEPT !.thrown = finalBuilder.thrown]
    ELSE [b EXCEPT !.quest.Conditions = <<finalBuilder.condition>> \o @]

\* this.quest.Conditions.push(finalBuilder.build())
PushCondition(b, finalBuilder) ==
    IF finalBuilder.thrown # Null THEN [b EXCEPT !.thrown = finalBuilder.thrown]
    ELSE [b EXCEPT !.quest.Conditions = Append(@, finalBuilder.condition)]

\* QuestBuilder.addCondition: builderFn returns the finished Condition
addCondition(b, builderFn) ==
    IF b.thrown # Null THEN b
    ELSE PushCondition(b, ApplyCallback(builderFn, NewConditionBuilder))

addFetchCondition(b, builderFn) ==
    IF b.thrown # Null THEN b
    ELSE PushCondition(b, ApplyCallback(builderFn, asFetch(NewConditionBuilder)))

addEliminationCondition(b, builderFn) ==
    IF b.thrown # Null THEN b
    ELSE PushCondition(b, ApplyCallback(builderFn, asElimination(NewConditionBuilder)))

addInteractionCondition(b, builderFn) ==
    IF b.thrown # Null THEN b
    ELSE PushCondition(b, ApplyCallback(builderFn, asInteraction(NewConditionBuilder)))

\* one turn of watchedValues.Conditions.forEach (lines 304-359)
AddOneCondition(b, condition) ==
    IF condition.type = "Fetch" /\ Len(condition.items) > 0
    THEN addFetchCondition(b, [fn |-> "fetch", arg |-> condition])
    ELSE IF condition.type = "Elimination" /\ Len(condition.items) > 0
    THEN addEliminationCondition(b, [fn |-> "elimination", arg |-> condition])
    ELSE IF condition.type = "Interaction" /\ Truthy(condition.interactionObject)
    THEN addInteractionCondition(b, [fn |-> "interaction", arg |-> condition])
    ELSE b

RECURSIVE AddEachCondition(_, _)
AddEachCondition(b, conditions) ==
    IF conditions = <<>> THEN b
    ELSE AddEachCondition(AddOneCondition(b, Head(conditions)), Tail(conditions))

\* lines 302-366
AddConditions(b, conditions) ==
    IF conditions.k = "array" /\ Len(conditions.a) > 0
    THEN AddEachCondition(b, conditions.a)
    ELSE addFetchCondition(b, [fn |-> "default", arg |-> EmptyCondition])

(* --------------------- transform effect: pipeline ---------------------- *)
TitleRequired == <<"Title is required">>
DescriptionRequired == <<"Description is required">>
RewardPoolRequired == <<"At least one reward pool is required">>
RewardContentRequired ==
    <<"At least one reward must have content (currency, skills, or trade deals)">>

\* the checklist testing the trimmed title where the gate tests the raw one
CompletionErrorsTrimmed(wv) ==
    (IF ~Truthy(Trim(wv.Title)) THEN <<TitleRequired>> ELSE <<>>)
    \o (IF ~Truthy(wv.Description) THEN <<DescriptionRequired>> ELSE <<>>)
    \o (IF wv.RewardPool.k = "undefined" \/ Len(wv.RewardPool.a) = 0
        THEN <<RewardPoolRequired>> ELSE <<>>)

\* lines 195-206
CompletionErrors(wv) ==
    (IF ~Truthy(wv.Title) THEN <<TitleRequired>> ELSE <<>>)
    \o (IF ~Truthy(wv.Description) THEN <<DescriptionRequired>> ELSE <<>>)
    \o (IF wv.RewardPool.k = "undefined" \/ Len(wv.RewardPool.a) = 0
        THEN <<RewardPoolRequired>> ELSE <<>>)

\* lines 209-213: Title && Description && RewardPool.length > 0.  Reading
\* .length of an absent RewardPool throws a TypeError, outside the try.
GateThrows(wv) ==
    Truthy(wv.Title) /\ Truthy(wv.Description) /\ wv.RewardPool.k = "undefined"

Gate(wv) ==
    Truthy(wv.Title) /\ Truthy(wv.Description) /\ Len(wv.RewardPool.a) > 0

\* no builder is constructed when the gate is closed
NoBuilder == [quest |-> EmptyDraft, thrown |-> Null]

\* lines 216-227
BasicProperties(wv) ==
    LET b == withDescription(
                withTitle(
                    withTier(withNPC(NewQuestBuilder, wv.AssociatedNpc), wv.Tier),
                    wv.Title),
                wv.Description)
    IN IF Truthy(wv.TimeLimitHours) /\ Gt(wv.TimeLimitHours, 0)
       THEN withTimeLimit(b, wv.TimeLimitHours) ELSE b

\* a catch that clears the quest and reports nothing
CatchSilently(formErrors, builder, error) ==
    [quest |-> Null,
     errors |-> formErrors,
     builder |-> builder,
     pipeline |-> IF error.name = "ZodError" THEN "SchemaFailure" ELSE "BuilderError"]

\* lines 378-391: every error thrown in the try block ends here
Catch(formErrors, builder, error) ==
    [quest |-> Null,
     errors |-> Append(formErrors, error.message),
     builder |-> builder,
     pipeline |-> IF error.name = "ZodError" THEN "SchemaFailure" ELSE "BuilderError"]

\* lines 300-377
BuildQuest(formErrors, wv, b2) ==
    IF hasValidRewards(wv.RewardPool.a)
    THEN LET b3 == AddConditions(b2, wv.Conditions)
             built == build(b3)
         IN IF b3.thrown # Null THEN Catch(formErrors, b3, b3.thrown[1])
            ELSE IF built.thrown # Null THEN Catch(formErrors, b3, built.thrown[1])
            ELSE [quest |-> built.quest, errors |-> formErrors,
                  builder |-> b3, pipeline |-> "Built"]
    ELSE [quest |-> Null,
          errors |-> Append(formErrors, RewardContentRequired),
          builder |-> b2, pipeline |-> "NoValidRewards"]

\* a transform whose closed-gate branch reports nothing, so that the
\* application keeps the quest it holds
TransformSilent(wv) ==
    LET formErrors == CompletionErrors(wv) IN
    IF Gate(wv)
    THEN BuildQuest(formErrors, wv, AddRewards(BasicProperties(wv), wv.RewardPool.a))
    ELSE [quest |-> quest, errors |-> formErrors,
          builder |-> NoBuilder, pipeline |-> "Incomplete"]

\* the transform effect (lines 193-398) on a snapshot whose gate does not throw
Transform(wv) ==
    LET formErrors == CompletionErrors(wv) IN
    IF Gate(wv)
    THEN BuildQuest(formErrors, wv, AddRewards(BasicProperties(wv), wv.RewardPool.a))
    ELSE [quest |-> Null, errors |-> formErrors,
          builder |-> NoBuilder, pipeline |-> "Incomplete"]

\* an effect that stops re-deriving once a build has failed
RunEffectLatched(wv) ==
    /\ watchedValues' = wv
    /\ IF GateThrows(wv)
       THEN /\ fault' = "TypeError"
            /\ UNCHANGED <<quest, validationErrors, questBuilder, pipeline, before>>
       ELSE LET r == Transform(wv) IN
            /\ quest' = IF pipeline = "SchemaFailure" THEN quest ELSE r.quest
            /\ validationErrors' =
                    IF pipeline = "SchemaFailure" THEN validationErrors ELSE r.errors
            /\ questBuilder' = r.builder
            /\ pipeline' = IF pipeline = "SchemaFailure" THEN pipeline ELSE r.pipeline
            /\ before' = pipeline
            /\ fault' = "none"

\* The effect runs after every render: onQuestUpdate -> App.setQuest,
\* setValidationErrors.
RunEffect(wv) ==
    /\ watchedValues' = wv
    /\ IF GateThrows(wv)
       THEN /\ fault' = "TypeError"
            /\ UNCHANGED <<quest, validationErrors, questBuilder, pipeline, before>>
       ELSE LET r == Transform(wv) IN
            /\ quest' = r.quest
            /\ validationErrors' = r.errors
            /\ questBuilder' = r.builder
            /\ pipeline' = r.pipeline
            /\ before' = pipeline
            /\ fault' = "none"

\* what a call on a QuestBuilder gave back: the builder itself (setters and
\* adds), a validation result, a Quest, or an exception
Returned(call, arg, success, errors, q, thrown) ==
    [call |-> call, arg |-> arg, success |-> success, errors |-> errors,
     quest |-> q, thrown |-> thrown]

NoCall == Returned("none", Undefined, TRUE, <<>>, Null, Null)

(* ------------------------- JsonPreview: state -------------------------- *)
EmptyText == <<>>

\* useState(false), useState(null), useState(""); App renders
\* <JsonPreview quest={quest} /> without onLoadQuest
PanelMounted(prop) ==
    /\ onLoadQuest = prop
    /\ isLoading = FALSE
    /\ loadError = Null
    /\ editorValue = EmptyText
    /\ loaded = <<>>

(* ------------------------------ user edits ----------------------------- *)
\* The session model edits the title, the description, the reward pools and
\* the conditions; NPC, tier and time limit keep their defaults there, and
\* the wider range of field values is covered by the snapshots of
\* SpecSnapshot.
Titles == {Empty, GetApples}
Descriptions == {Empty, BringApples}

FameReward == [EmptyReward EXCEPT !.fame = Num(10)]
ZeroReward == [EmptyReward EXCEPT !.currencyNormal = Num(0), !.currencyGold = NaN]
SkillReward ==
    [EmptyReward EXCEPT !.currencyNormal = Num(5),
                        !.skills = <<[skill |-> Cooking, experience |-> Num(50)],
                                     [skill |-> Cooking, experience |-> Num(0)]>>]
NewTradeDeal ==
    [item |-> Empty, price |-> Undefined, amount |-> Num(1), fame |-> Undefined,
     allowExcluded |-> Undefined]
BlankTradeReward == [EmptyReward EXCEPT !.tradeDeals = <<NewTradeDeal>>]
TradeReward ==
    [EmptyReward EXCEPT
        !.currencyGold = Num(3),
        !.tradeDeals = <<[NewTradeDeal EXCEPT !.item = Axe, !.price = Num(0),
                                              !.fame = Num(0)],
                         [NewTradeDeal EXCEPT !.item = Blank]>>]

RewardInputs ==
    {EmptyReward, FameReward, ZeroReward, SkillReward, BlankTradeReward,
     TradeReward}

\* the reward fragments the session model edits a pool into
EditedRewards == {EmptyReward, FameReward, BlankTradeReward}

NewItem == [name |-> Empty, amount |-> Num(1)]
FetchApples ==
    [EmptyCondition EXCEPT !.items = <<[name |-> Apple, amount |-> Num(2)]>>]
FetchUnnamed == [EmptyCondition EXCEPT !.items = <<NewItem>>]
EmptyElimination == [EmptyCondition EXCEPT !.type = "Elimination"]
EliminatePuppets ==
    [EmptyCondition EXCEPT
        !.type = "Elimination", !.sequenceIndex = Num(1),
        !.items = <<[name |-> Puppet, amount |-> Num(3)]>>,
        !.canBeAutoCompleted = Bool(TRUE), !.trackingCaption = Caption]
InteractDoor ==
    [EmptyCondition EXCEPT !.type = "Interaction", !.sequenceIndex = Num(2),
                           !.interactionObject = Door]
InteractNothing ==
    [EmptyCondition EXCEPT !.type = "Interaction", !.interactionObject = Empty]
InteractBlank ==
    [EmptyCondition EXCEPT !.type = "Interaction", !.interactionObject = Blank]

ConditionInputs ==
    {EmptyCondition, FetchApples, FetchUnnamed, EmptyElimination,
     EliminatePuppets, InteractDoor, InteractNothing, InteractBlank}

\* the condition fragments the session model edits a condition into
EditedConditions ==
    {EmptyCondition, FetchApples, FetchUnnamed, EliminatePuppets}

Remove(seq, i) == SubSeq(seq, 1, i - 1) \o SubSeq(seq, i + 1, Len(seq))

Alive == fault = "none"

\* a change of the form values re-renders the form, which runs the effect
Edit(wv) == RunEffect(wv) /\ UNCHANGED <<renders, panel, returned>>

\* register("Title") onChange
SetTitle ==
    /\ Alive
    /\ \E v \in Titles : Edit([watchedValues EXCEPT !.Title = v])

\* register("Description") onChange
SetDescription ==
    /\ Alive
    /\ \E v \in Descriptions : Edit([watchedValues EXCEPT !.Description = v])

\* RewardBuilder.tsx addReward
AppendReward ==
    /\ Alive
    /\ Len(watchedValues.RewardPool.a) < MaxRewards
    /\ Edit([watchedValues EXCEPT !.RewardPool.a = Append(@, EmptyReward)])

\* RewardBuilder.tsx onRemove
RemoveReward ==
    /\ Alive
    /\ \E i \in 1..Len(watchedValues.RewardPool.a) :
        Edit([watchedValues EXCEPT !.RewardPool.a = Remove(@, i)])

\* RewardPoolEditor: the fields, skills and trade deals of reward i edited
ChangeReward ==
    /\ Alive
    /\ \E i \in 1..Len(watchedValues.RewardPool.a) : \E r \in EditedRewards :
        Edit([watchedValues EXCEPT !.RewardPool.a[i] = r])

\* ConditionBuilder.tsx addCondition
AppendCondition ==
    /\ Alive
    /\ Len(watchedValues.Conditions.a) < MaxConditions
    /\ Edit([watchedValues EXCEPT !.Conditions.a = Append(@, EmptyCondition)])

\* ConditionBuilder.tsx onRemove
RemoveCondition ==
    /\ Alive
    /\ \E i \in 1..Len(watchedValues.Conditions.a) :
        Edit([watchedValues EXCEPT !.Conditions.a = Remove(@, i)])

\* ConditionEditor: the fields and items of condition i edited
ChangeCondition ==
    /\ Alive
    /\ \E i \in 1..Len(watchedValues.Conditions.a) : \E c \in EditedConditions :
        Edit([watchedValues EXCEPT !.Conditions.a[i] = c])

\* a render with unchanged values: watch() returns a new object, the effect
\* runs again on the same snapshot
Rerender ==
    /\ Alive
    /\ Edit(watchedValues)

\* the form mounted with its default values, the effect run once
Init ==
    /\ watchedValues = defaultValues
    /\ quest = Null
    /\ validationErrors = CompletionErrors(defaultValues)
    /\ questBuilder = NoBuilder
    /\ pipeline = "Incomplete"
    /\ before = "Mounted"
    /\ fault = "none"
    /\ renders = 0
    /\ PanelMounted("undefined")
    /\ returned = NoCall

Next ==
    \/ SetTitle
    \/ SetDescription
    \/ AppendReward
    \/ RemoveReward
    \/ ChangeReward
    \/ AppendCondition
    \/ RemoveCondition
    \/ ChangeCondition
    \/ Rerender

Spec == Init /\ [][Next]_vars

(* ------------- the transform on arbitrary snapshots -------------------- *)
\* Every field of an AuthoringState snapshot may be absent; a number input
\* holds NaN once emptied.
RewardPools ==
    {UndefinedArr, Arr(<<>>)}
    \cup {Arr(<<r>>) : r \in RewardInputs}
    \cup {Arr(<<r1, r2>>) : r1 \in RewardInputs, r2 \in RewardInputs}

ConditionLists ==
    {UndefinedArr, Arr(<<>>)}
    \cup {Arr(<<c>>) : c \in ConditionInputs}
    \cup {Arr(<<c1, c2>>) : c1 \in ConditionInputs, c2 \in ConditionInputs}

Snapshots ==
    [AssociatedNpc : {Bartender},
     Tier : {Num(1)},
     Title : {Undefined, Empty, Blank, GetApples},
     Description : {Undefined, BringApples},
     TimeLimitHours : {Undefined, NaN, Num(0), Num(2)},
     RewardPool : RewardPools,
     Conditions : ConditionLists]

\* the form mounted on a snapshot, the effect not yet run
InitSnapshot ==
    /\ watchedValues \in Snapshots
    /\ quest = Null
    /\ validationErrors = <<>>
    /\ questBuilder = NoBuilder
    /\ pipeline = "Mounted"
    /\ before = "Mounted"
    /\ fault = "none"
    /\ renders = 0
    /\ PanelMounted("undefined")
    /\ returned = NoCall

\* one more run of the effect on the same snapshot
Render ==
    /\ fault = "none"
    /\ renders < MaxRenders
    /\ renders' = renders + 1
    /\ RunEffect(watchedValues)
    /\ UNCHANGED <<panel, returned>>

SpecSnapshot == InitSnapshot /\ [][Render]_vars

(* ------------------------------- JSON ---------------------------------- *)
\* A JSON value is a node [t, n, s, e, m]: numbers in n, the characters of a
\* string in s, the elements of an array in e, the members of an object, in
\* insertion order, in m.  A text is a sequence of tokens [t, s].
JNode(t, n, s, e, m) == [t |-> t, n |-> n, s |-> s, e |-> e, m |-> m]
JAbsent == JNode("undefined", 0, <<>>, <<>>, <<>>)
JNull == JNode("null", 0, <<>>, <<>>, <<>>)
JNum(n) == JNode("number", n, <<>>, <<>>, <<>>)
JStr(s) == JNode("string", 0, s, <<>>, <<>>)
JBool(b) == JNode("boolean", IF b THEN 1 ELSE 0, <<>>, <<>>, <<>>)
JArr(e) == JNode("array", 0, <<>>, e, <<>>)
JObj(m) == JNode("object", 0, <<>>, <<>>, m)
Member(key, value) == [key |-> key, value |-> value]

\* JSON.stringify of a scalar: NaN is written as null
JsonOf(v) ==
    CASE v.k = "number" -> JNum(v.n)
      [] v.k = "string" -> JStr(v.s)
      [] v.k = "boolean" -> JBool(v.n = 1)
      [] OTHER -> JNull

\* JSON.stringify omits a property whose value is undefined
Prop(key, v) == IF v.k = "undefined" THEN <<>> ELSE <<Member(key, JsonOf(v))>>

ItemJson(it) == JObj(Prop("name", it.name) \o Prop("amount", it.amount))

SkillJson(sk) == JObj(Prop("Skill", sk.Skill) \o Prop("Experience", sk.Experience))

TradeDealJson(td) ==
    JObj(Prop("Item", td.Item) \o Prop("Price", td.Price)
         \o Prop("Amount", td.Amount) \o Prop("Fame", td.Fame)
         \o Prop("AllowExcluded", td.AllowExcluded))

RewardJson(r) ==
    JObj(Prop("CurrencyNormal", r.CurrencyNormal)
         \o Prop("CurrencyGold", r.CurrencyGold)
         \o Prop("Fame", r.Fame)
         \o <<Member("Skills", JArr([i \in 1..Len(r.Skills) |-> SkillJson(r.Skills[i])]))>>
         \o <<Member("TradeDeals",
                     JArr([i \in 1..Len(r.TradeDeals) |-> TradeDealJson(r.TradeDeals[i])]))>>)

ConditionJson(c) ==
    JObj(<<Member("Type", JStr(<<c.Type>>))>>
         \o Prop("SequenceIndex", c.SequenceIndex)
         \o <<Member("Items", JArr([i \in 1..Len(c.Items) |-> ItemJson(c.Items[i])]))>>
         \o Prop("InteractionObject", c.InteractionObject)
         \o Prop("CanBeAutoCompleted", c.CanBeAutoCompleted)
         \o Prop("TrackingCaption", c.TrackingCaption))

\* the Quest object as JSON.stringify walks it
QuestJson(q) ==
    JObj(Prop("AssociatedNpc", q.AssociatedNpc)
         \o Prop("Tier", q.Tier)
         \o Prop("Title", q.Title)
         \o Prop("Description", q.Description)
         \o Prop("TimeLimitHours", q.TimeLimitHours)
         \o <<Member("RewardPool",
                     JArr([i \in 1..Len(q.RewardPool) |-> RewardJson(q.RewardPool[i])]))>>
         \o <<Member("Conditions",
                     JArr([i \in 1..Len(q.Conditions) |-> ConditionJson(q.Conditions[i])]))>>)

Tok(t) == [t |-> t, s |-> <<>>]
TokS(t, s) == [t |-> t, s |-> s]

DigitChar(d) == <<"0", "1", "2", "3", "4", "5", "6", "7", "8", "9">>[d + 1]
DigitValue(c) == CHOOSE d \in 0..9 : DigitChar(d) = c

\* the decimal digits of a non-negative integer
RECURSIVE Digits(_)
Digits(n) ==
    IF n < 10 THEN <<DigitChar(n)>> ELSE Digits(n \div 10) \o <<DigitChar(n % 10)>>

RECURSIVE NumberOf(_)
NumberOf(digits) ==
    IF Len(digits) = 1 THEN DigitValue(digits[1])
    ELSE 10 * NumberOf(SubSeq(digits, 1, Len(digits) - 1))
         + DigitValue(digits[Len(digits)])

\* a quote or a backslash inside a string literal is escaped
RECURSIVE Escape(_)
Escape(s) ==
    IF s = <<>> THEN <<>>
    ELSE IF Head(s) \in {"\"", "\\"} THEN <<"\\", Head(s)>> \o Escape(Tail(s))
    ELSE <<Head(s)>> \o Escape(Tail(s))

RECURSIVE Unescape(_)
Unescape(s) ==
    IF s = <<>> THEN <<>>
    ELSE IF Head(s) = "\\" /\ Len(s) >= 2 THEN <<s[2]>> \o Unescape(Tail(Tail(s)))
    ELSE <<Head(s)>> \o Unescape(Tail(s))

\* JSON.stringify(value, null, 2): the tokens of the indented text
RECURSIVE Stringify(_)
RECURSIVE StringifyElements(_)
RECURSIVE StringifyMembers(_)
Stringify(node) ==
    CASE node.t = "number" -> <<TokS("number", Digits(node.n))>>
      [] node.t = "string" -> <<TokS("string", Escape(node.s))>>
      [] node.t = "boolean" -> <<Tok(IF node.n = 1 THEN "true" ELSE "false")>>
      [] node.t = "array" ->
            IF node.e = <<>> THEN <<Tok("["), Tok("]")>>
            ELSE <<Tok("["), Tok("ws")>> \o StringifyElements(node.e)
                 \o <<Tok("ws"), Tok("]")>>
      [] node.t = "object" ->
            IF node.m = <<>> THEN <<Tok("{"), Tok("}")>>
            ELSE <<Tok("{"), Tok("ws")>> \o StringifyMembers(node.m)
                 \o <<Tok("ws"), Tok("}")>>
      [] OTHER -> <<Tok("null")>>

StringifyElements(e) ==
    IF Len(e) = 1 THEN Stringify(e[1])
    ELSE Stringify(e[1]) \o <<Tok(","), Tok("ws")>> \o StringifyElements(Tail(e))

StringifyMembers(m) ==
    LET one == <<TokS("string", Escape(<<m[1].key>>)), Tok(":"), Tok("ws")>>
                \o Stringify(m[1].value)
    IN IF Len(m) = 1 THEN one
       ELSE one \o <<Tok(","), Tok("ws")>> \o StringifyMembers(Tail(m))

\* the position of the first token at or after i that is not white space
RECURSIVE Skip(_, _)
Skip(text, i) ==
    IF i <= Len(text) /\ text[i].t = "ws" THEN Skip(text, i + 1) ELSE i

\* the kind of the token at position i, "end" past the last token
Kind(text, i) == IF i <= Len(text) THEN text[i].t ELSE "end"

\* the outcome of parsing from a position: the value and the position after
Parsed(value, next) == [ok |-> TRUE, value |-> value, next |-> next]
SyntaxError == [ok |-> FALSE, value |-> JNull, next |-> 0]

RECURSIVE ParseValue(_, _)
RECURSIVE ParseElements(_, _, _)
RECURSIVE ParseMembers(_, _, _)
ParseValue(text, from) ==
    LET i == Skip(text, from)
        t == Kind(text, i)
    IN CASE t = "number" -> Parsed(JNum(NumberOf(text[i].s)), i + 1)
         [] t = "string" -> Parsed(JStr(Unescape(text[i].s)), i + 1)
         [] t = "true" -> Parsed(JBool(TRUE), i + 1)
         [] t = "false" -> Parsed(JBool(FALSE), i + 1)
         [] t = "null" -> Parsed(JNull, i + 1)
         [] t = "[" ->
                IF Kind(text, Skip(text, i + 1)) = "]"
                THEN Parsed(JArr(<<>>), Skip(text, i + 1) + 1)
                ELSE ParseElements(text, i + 1, <<>>)
         [] t = "{" ->
                IF Kind(text, Skip(text, i + 1)) = "}"
                THEN Parsed(JObj(<<>>), Skip(text, i + 1) + 1)
                ELSE ParseMembers(text, i + 1, <<>>)
         [] OTHER -> SyntaxError

\* the elements after "[" or ",", up to the closing "]"
ParseElements(text, from, acc) ==
    LET v == ParseValue(text, from)
        j == Skip(text, v.next)
    IN IF ~v.ok THEN SyntaxError
       ELSE IF Kind(text, j) = ","
       THEN ParseElements(text, j + 1, Append(acc, v.value))
       ELSE IF Kind(text, j) = "]"
       THEN Parsed(JArr(Append(acc, v.value)), j + 1)
       ELSE SyntaxError

\* the members after "{" or ",", up to the closing "}"
ParseMembers(text, from, acc) ==
    LET i == Skip(text, from)
        c == Skip(text, i + 1)
        key == Unescape(text[i].s)
        v == ParseValue(text, c + 1)
        j == Skip(text, v.next)
    IN IF Kind(text, i) # "string" \/ Kind(text, c) # ":" THEN SyntaxError
       ELSE IF ~v.ok \/ Len(key) # 1 THEN SyntaxError
       ELSE IF Kind(text, j) = ","
       THEN ParseMembers(text, j + 1, Append(acc, Member(key[1], v.value)))
       ELSE IF Kind(text, j) = "}"
       THEN Parsed(JObj(Append(acc, Member(key[1], v.value))), j + 1)
       ELSE SyntaxError

\* JSON.parse: the whole text is one value, or a SyntaxError is thrown
JSONParse(text) ==
    LET v == ParseValue(text, 1) IN
    IF v.ok /\ Skip(text, v.next) = Len(text) + 1 THEN v ELSE SyntaxError

\* data[key]: the member written last wins, an absent member is undefined
Field(node, key) ==
    LET at == {i \in 1..Len(node.m) : node.m[i].key = key} IN
    IF node.t = "object" /\ at # {}
    THEN node.m[CHOOSE i \in at : \A j \in at : j <= i].value
    ELSE JAbsent

\* a member read as a scalar of the Quest shape
Scalar(node) ==
    CASE node.t = "number" -> Num(node.n)
      [] node.t = "string" -> Str(node.s)
      [] node.t = "boolean" -> Bool(node.n = 1)
      [] node.t = "undefined" -> Undefined
      [] OTHER -> [k |-> node.t, n |-> 0, s |-> <<>>]

Elements(node) == IF node.t = "array" THEN node.e ELSE <<>>

ItemOf(node) ==
    [name |-> Scalar(Field(node, "name")), amount |-> Scalar(Field(node, "amount"))]

SkillOf(node) ==
    [Skill |-> Scalar(Field(node, "Skill")),
     Experience |-> Scalar(Field(node, "Experience"))]

TradeDealOf(node) ==
    [Item |-> Scalar(Field(node, "Item")), Price |-> Scalar(Field(node, "Price")),
     Amount |-> Scalar(Field(node, "Amount")), Fame |-> Scalar(Field(node, "Fame")),
     AllowExcluded |-> Scalar(Field(node, "AllowExcluded"))]

RewardOf(node) ==
    [CurrencyNormal |-> Scalar(Field(node, "CurrencyNormal")),
     CurrencyGold |-> Scalar(Field(node, "CurrencyGold")),
     Fame |-> Scalar(Field(node, "Fame")),
     Skills |-> [i \in 1..Len(Elements(Field(node, "Skills"))) |->
                    SkillOf(Elements(Field(node, "Skills"))[i])],
     TradeDeals |-> [i \in 1..Len(Elements(Field(node, "TradeDeals"))) |->
                        TradeDealOf(Elements(Field(node, "TradeDeals"))[i])]]

ConditionOf(node) ==
    [Type |-> IF Field(node, "Type").t = "string" /\ Len(Field(node, "Type").s) = 1
              THEN Field(node, "Type").s[1] ELSE "",
     SequenceIndex |-> Scalar(Field(node, "SequenceIndex")),
     Items |-> [i \in 1..Len(Elements(Field(node, "Items"))) |->
                    ItemOf(Elements(Field(node, "Items"))[i])],
     InteractionObject |-> Scalar(Field(node, "InteractionObject")),
     CanBeAutoCompleted |-> Scalar(Field(node, "CanBeAutoCompleted")),
     TrackingCaption |-> Scalar(Field(node, "TrackingCaption"))]

\* the parsed data read member by member as a Quest
QuestOf(node) ==
    [AssociatedNpc |-> Scalar(Field(node, "AssociatedNpc")),
     Tier |-> Scalar(Field(node, "Tier")),
     Title |-> Scalar(Field(node, "Title")),
     Description |-> Scalar(Field(node, "Description")),
     TimeLimitHours |-> Scalar(Field(node, "TimeLimitHours")),
     RewardPool |-> [i \in 1..Len(Elements(Field(node, "RewardPool"))) |->
                        RewardOf(Elements(Field(node, "RewardPool"))[i])],
     Conditions |-> [i \in 1..Len(Elements(Field(node, "Conditions"))) |->
                        ConditionOf(Elements(Field(node, "Conditions"))[i])]]

\* QuestSchema.safeParse(data)
safeParse(data) ==
    LET issues == QuestSchemaIssues(QuestOf(data)) IN
    [success |-> issues = <<>>, data |-> QuestOf(data), error |-> ZodMessage(issues)]

(* ------------------------ JsonPreview: handlers ------------------------ *)
Comment(line) == <<TokS("comment", <<line>>)>>

\* lines 16-18: the text shown while the editor is read-only
jsonString(q) ==
    IF q # Null THEN Stringify(QuestJson(q[1]))
    ELSE Comment("// Quest will appear here as you build it...")

Placeholder == Comment("// Paste your quest JSON here...")

\* a start of load mode that leaves the error of the attempt before in place
handleStartLoadKeepingError ==
    /\ onLoadQuest # "undefined"
    /\ ~isLoading
    /\ isLoading' = TRUE
    /\ editorValue' = Placeholder
    /\ UNCHANGED <<form, onLoadQuest, loadError, loaded, returned>>

\* the Load Quest button, rendered when onLoadQuest is given
handleStartLoad ==
    /\ onLoadQuest # "undefined"
    /\ ~isLoading
    /\ isLoading' = TRUE
    /\ loadError' = Null
    /\ editorValue' = Placeholder
    /\ UNCHANGED <<form, onLoadQuest, loaded, returned>>

\* the Cancel button, rendered while loading
handleCancelLoad ==
    /\ isLoading
    /\ isLoading' = FALSE
    /\ loadError' = Null
    /\ editorValue' = EmptyText
    /\ UNCHANGED <<form, onLoadQuest, loaded, returned>>

\* a success branch that closes the editor without calling onLoadQuest
AcceptQuietly(data) ==
    /\ loaded' = loaded
    /\ isLoading' = FALSE
    /\ editorValue' = EmptyText
    /\ loadError' = Null

\* lines 54-57: onLoadQuest(validationResult.data), the editor closed
AcceptQuest(data) ==
    /\ loaded' = Append(loaded, data)
    /\ isLoading' = FALSE
    /\ editorValue' = EmptyText
    /\ loadError' = Null

\* a failure branch that hands the rejected data to onLoadQuest all the same
RejectAfterDelivery(message, data) ==
    /\ loadError' = Some(message)
    /\ isLoading' = FALSE
    /\ loaded' = Append(loaded, data)
    /\ UNCHANGED editorValue

\* lines 58-60 and 62-69: the error shown, nothing delivered
RejectText(message, data) ==
    /\ loadError' = Some(message)
    /\ isLoading' = FALSE
    /\ UNCHANGED <<editorValue, loaded>>

\* lines 42-71, the Load button, rendered while loading
handleLoadQuest ==
    /\ isLoading
    /\ Len(loaded) < MaxLoads
    /\ IF onLoadQuest = "undefined"
       THEN UNCHANGED <<isLoading, loadError, editorValue, loaded>>
       ELSE LET parsedQuest == JSONParse(editorValue)
                validationResult == safeParse(parsedQuest.value)
            IN IF ~parsedQuest.ok
               THEN RejectText(<<"Invalid JSON: ", "Unexpected token">>,
                               QuestOf(parsedQuest.value))
               ELSE IF validationResult.success
               THEN AcceptQuest(validationResult.data)
               ELSE RejectText(<<"Invalid quest format: ">> \o validationResult.error,
                               validationResult.data)
    /\ UNCHANGED <<form, onLoadQuest, returned>>

(* ---------------- JsonPreview under a parent that loads ---------------- *)
Quoted == Str(<<"a", "\"", "\\", "n">>)

\* snapshots whose Quest, or null, is the quest prop of the panel
LoadSnapshots ==
    {defaultValues,
     [defaultValues EXCEPT !.Title = GetApples, !.Description = BringApples,
                           !.RewardPool = Arr(<<FameReward>>)],
     [defaultValues EXCEPT !.Title = Quoted, !.Description = BringApples,
                           !.TimeLimitHours = Num(12),
                           !.RewardPool = Arr(<<SkillReward, TradeReward>>),
                           !.Conditions = Arr(<<FetchApples, EliminatePuppets>>)]}

\* a text that lost its last token on the way to the clipboard
Truncated(text) == SubSeq(text, 1, Len(text) - 1)

MalformedTexts(q) ==
    {EmptyText, Placeholder, Truncated(jsonString(q))}
    \cup {Truncated(jsonString(Transform(wv).quest)) : wv \in LoadSnapshots}

\* JSON texts the Schema rejects: no Quest at all, a Quest without its title
InvalidQuestTexts ==
    {<<Tok("{"), Tok("}")>>, <<Tok("["), Tok("]")>>}
    \cup {Stringify(QuestJson([Transform(wv).quest[1] EXCEPT !.Title = Empty])) :
            wv \in {w \in LoadSnapshots : Transform(w).quest # Null}}

QuestTexts ==
    {jsonString(Transform(wv).quest) :
        wv \in {w \in LoadSnapshots : Transform(w).quest # Null}}

Texts(q) == MalformedTexts(q) \cup InvalidQuestTexts \cup QuestTexts

\* Editor onChange, while the editor is writable
onChange ==
    /\ isLoading
    /\ \E text \in Texts(quest) : editorValue' = text
    /\ UNCHANGED <<form, onLoadQuest, isLoading, loadError, loaded, returned>>

\* the form has run its effect on a snapshot; the parent passes the Quest and
\* an onLoadQuest that keeps what it is given
InitLoad ==
    /\ watchedValues \in LoadSnapshots
    /\ quest = Transform(watchedValues).quest
    /\ validationErrors = Transform(watchedValues).errors
    /\ questBuilder = Transform(watchedValues).builder
    /\ pipeline = Transform(watchedValues).pipeline
    /\ before = "Mounted"
    /\ fault = "none"
    /\ renders = 0
    /\ PanelMounted("given")
    /\ returned = NoCall

NextLoad ==
    \/ handleStartLoad
    \/ handleCancelLoad
    \/ onChange
    \/ handleLoadQuest

SpecLoad == InitLoad /\ [][NextLoad]_vars

(* ------------------- QuestBuilder under its callers -------------------- *)
\* A caller holds one QuestBuilder and calls its methods in any order.
draft == questBuilder.quest

Adds == Len(draft.RewardPool) + Len(draft.Conditions)

\* a setter or an add returns the builder
Chained(call, arg, b) ==
    /\ questBuilder' = b
    /\ returned' = Returned(call, arg, TRUE, <<>>, Null, Null)
    /\ UNCHANGED <<watchedValues, quest, validationErrors, pipeline, before,
                   fault, renders, panel>>

CallWithNPC == Chained("withNPC", Bartender, withNPC(questBuilder, Bartender))

CallWithTier == Chained("withTier", Num(1), withTier(questBuilder, Num(1)))

CallWithTitle ==
    \E title \in {Empty, GetApples} :
        Chained("withTitle", title, withTitle(questBuilder, title))

CallWithDescription ==
    Chained("withDescription", BringApples, withDescription(questBuilder, BringApples))

CallWithTimeLimit ==
    \E hours \in {Num(0), Num(2)} :
        Chained("withTimeLimit", hours, withTimeLimit(questBuilder, hours))

CallAddCondition ==
    /\ Adds < MaxAdds
    /\ Chained("addCondition", Undefined,
               addCondition(questBuilder, [fn |-> "seeded", arg |-> EmptyCondition]))

CallAddFetchCondition ==
    /\ Adds < MaxAdds
    /\ Chained("addFetchCondition", Undefined,
               addFetchCondition(questBuilder, [fn |-> "fetch", arg |-> FetchApples]))

CallAddEliminationCondition ==
    /\ Adds < MaxAdds
    /\ Chained("addEliminationCondition", Undefined,
               addEliminationCondition(questBuilder,
                    [fn |-> "elimination", arg |-> EliminatePuppets]))

CallAddInteractionCondition ==
    /\ Adds < MaxAdds
    /\ Chained("addInteractionCondition", Undefined,
               addInteractionCondition(questBuilder,
                    [fn |-> "interaction", arg |-> InteractDoor]))

CallAddReward ==
    /\ Adds < MaxAdds
    /\ Chained("addReward", Undefined,
               addReward(questBuilder, [fn |-> "reward", arg |-> TradeReward]))

CallAddCurrencyReward ==
    /\ Adds < MaxAdds
    /\ Chained("addCurrencyReward", Undefined,
               addCurrencyReward(questBuilder, Num(5), Undefined, Undefined))

\* validate() returns { success, errors }
CallValidate ==
    /\ returned' = Returned("validate", Undefined, validate(questBuilder).success,
                            validate(questBuilder).errors, Null, Null)
    /\ UNCHANGED <<form, panel>>

\* build() returns the Quest or throws the ZodError
CallBuild ==
    /\ returned' = Returned("build", Undefined, build(questBuilder).thrown = Null,
                            <<>>, build(questBuilder).quest, build(questBuilder).thrown)
    /\ UNCHANGED <<form, panel>>

\* preview() (lines 110-112) returns { ...this.quest }: a new object with the
\* draft's scalar fields and with the draft's own RewardPool and Conditions
\* arrays, so the object and the builder hold the same two arrays.
preview(b) == b.quest

CallPreview ==
    /\ returned' = Returned("preview", Undefined, TRUE, <<>>,
                            Some(preview(questBuilder)), Null)
    /\ UNCHANGED <<form, panel>>

\* the caller holds the object preview() returned
HoldsPreview == returned.call = "preview"

\* previewed.Title = " ": a property of the returned object only
AssignPreviewTitle ==
    /\ HoldsPreview
    /\ returned' = [returned EXCEPT !.quest = Some([@[1] EXCEPT !.Title = Blank])]
    /\ UNCHANGED <<form, panel>>

\* previewed.Conditions.push(condition): the array is the builder's own
PushPreviewCondition ==
    /\ HoldsPreview
    /\ Adds < MaxAdds
    /\ LET condition == DefaultCondition(asFetch(NewConditionBuilder)).condition
       IN /\ returned' = [returned EXCEPT
                            !.quest = Some([@[1] EXCEPT
                                !.Conditions = Append(draft.Conditions, condition)])]
          /\ questBuilder' = [questBuilder EXCEPT
                                !.quest.Conditions = Append(@, condition)]
    /\ UNCHANGED <<watchedValues, quest, validationErrors, pipeline, before,
                   fault, renders, panel>>

\* previewed.RewardPool.pop(): the array is the builder's own
PopPreviewReward ==
    /\ HoldsPreview
    /\ draft.RewardPool # <<>>
    /\ LET rest == SubSeq(draft.RewardPool, 1, Len(draft.RewardPool) - 1)
       IN /\ returned' = [returned EXCEPT
                            !.quest = Some([@[1] EXCEPT !.RewardPool = rest])]
          /\ questBuilder' = [questBuilder EXCEPT !.quest.RewardPool = rest]
    /\ UNCHANGED <<watchedValues, quest, validationErrors, pipeline, before,
                   fault, renders, panel>>

InitBuilder ==
    /\ watchedValues = defaultValues
    /\ quest = Null
    /\ validationErrors = <<>>
    /\ questBuilder = NewQuestBuilder
    /\ pipeline = "Mounted"
    /\ before = "Mounted"
    /\ fault = "none"
    /\ renders = 0
    /\ PanelMounted("undefined")
    /\ returned = NoCall

NextBuilder ==
    \/ CallWithNPC
    \/ CallWithTier
    \/ CallWithTitle
    \/ CallWithDescription
    \/ CallWithTimeLimit
    \/ CallAddCondition
    \/ CallAddFetchCondition
    \/ CallAddEliminationCondition
    \/ CallAddInteractionCondition
    \/ CallAddReward
    \/ CallAddCurrencyReward
    \/ CallValidate
    \/ CallBuild
    \/ CallPreview
    \/ AssignPreviewTitle
    \/ PushPreviewCondition
    \/ PopPreviewReward

SpecBuilder == InitBuilder /\ [][NextBuilder]_vars

(* ======================== properties =================================== *)
\* The vocabulary of the specification's statements.
BuildAttempted == pipeline \in {"Built", "SchemaFailure"}

\* the latest run of the transform delivered a QuestResult
Produced == pipeline # "Mounted" /\ fault = "none"

\* A reward fragment qualifies iff a currency is > 0, or a skill has
\* experience > 0, or a trade deal has a non-blank item name.
QualifyingReward(reward) ==
    \/ Gt(reward.currencyNormal, 0)
    \/ Gt(reward.currencyGold, 0)
    \/ Gt(reward.fame, 0)
    \/ \E i \in 1..Len(reward.skills) : Gt(reward.skills[i].experience, 0)
    \/ \E i \in 1..Len(reward.tradeDeals) : IsNonEmptyString(reward.tradeDeals[i].item)

\* A Fetch or Elimination fragment qualifies iff its list is non-empty, an
\* Interaction fragment iff its interactionObject is non-blank.
QualifyingCondition(condition) ==
    \/ condition.type \in {"Fetch", "Elimination"} /\ condition.items # <<>>
    \/ condition.type = "Interaction" /\ IsNonEmptyString(condition.interactionObject)

SomeRewardQualifies(wv) ==
    /\ wv.RewardPool.k = "array"
    /\ \E i \in 1..Len(wv.RewardPool.a) : QualifyingReward(wv.RewardPool.a[i])

NoConditionQualifies(wv) ==
    \A i \in 1..Len(wv.Conditions.a) : ~QualifyingCondition(wv.Conditions.a[i])

CompletionStrings ==
    {TitleRequired, DescriptionRequired, RewardPoolRequired, RewardContentRequired}

IsSchemaString(e) == e # <<>> /\ Head(e) = "["

DefaultFetch ==
    [Type |-> "Fetch", SequenceIndex |-> Num(0),
     Items |-> <<[name |-> Apple, amount |-> Num(1)]>>,
     InteractionObject |-> Undefined, CanBeAutoCompleted |-> Bool(FALSE),
     TrackingCaption |-> Undefined]

\* C1: the quest reported to the presentation layer is non-null iff the
\* errors list is empty and the pipeline ended Built; in every other outcome
\* the quest is null and the errors list is non-empty.
C1_QuestIffBuilt ==
    /\ quest # Null <=> (validationErrors = <<>> /\ pipeline = "Built")
    /\ pipeline \in {"Incomplete", "NoValidRewards", "SchemaFailure", "BuilderError"}
            => (quest = Null /\ validationErrors # <<>>)

C1_Witness ==
    /\ pipeline = "Built"
    /\ quest # Null
    /\ validationErrors = <<>>

\* C2: with non-blank title and description, a qualifying reward and no
\* qualifying condition, the built Quest has exactly one condition, the
\* default Fetch condition (sequenceIndex 0, one item Apple, amount 1).
C2_DefaultCondition ==
    ( /\ IsNonEmptyString(watchedValues.Title)
      /\ IsNonEmptyString(watchedValues.Description)
      /\ SomeRewardQualifies(watchedValues)
      /\ NoConditionQualifies(watchedValues) )
    => ( /\ quest # Null
         /\ quest[1].Conditions = <<DefaultFetch>> )

\* C3: every draft submitted to build() has at least one condition.
C3_DraftHasCondition ==
    BuildAttempted => Len(questBuilder.quest.Conditions) >= 1

\* C4: the draft handed to build() holds one reward pool per qualifying
\* reward fragment and none for a fragment with every facet absent, zero or
\* blank; no pool without currency, skill and trade deal is emitted.
C4_NoEmptyPool ==
    BuildAttempted =>
        /\ \A i \in 1..Len(questBuilder.quest.RewardPool) :
                questBuilder.quest.RewardPool[i] # NewRewardBuilder
        /\ Len(questBuilder.quest.RewardPool) =
                Cardinality({i \in 1..Len(watchedValues.RewardPool.a) :
                                QualifyingReward(watchedValues.RewardPool.a[i])})

\* C5: a build is attempted iff title and description are non-empty and
\* some reward fragment qualifies.
C5_BuildIffQualified ==
    BuildAttempted <=>
        ( /\ Truthy(watchedValues.Title)
          /\ Truthy(watchedValues.Description)
          /\ SomeRewardQualifies(watchedValues) )

\* C6: a run of the transform on the snapshot of the run before it reports
\* the same quest and the same errors, and leaves the same draft.
C6_Idempotent ==
    [][renders >= 1 =>
        /\ quest' = quest
        /\ validationErrors' = validationErrors
        /\ questBuilder'.quest = questBuilder.quest
        /\ pipeline' = pipeline]_vars

C6_Witness ==
    /\ renders = 2
    /\ pipeline = "Built"
    /\ Len(quest[1].RewardPool) = 2
    /\ Len(quest[1].Conditions) = 2

\* C7: the errors list holds one category of message: only checklist strings
\* unless a build was attempted, only Schema strings once it was, never both.
C7_OneCategory ==
    /\ pipeline \in {"Incomplete", "NoValidRewards"} =>
            \A i \in 1..Len(validationErrors) : validationErrors[i] \in CompletionStrings
    /\ BuildAttempted =>
            \A i \in 1..Len(validationErrors) :
                /\ validationErrors[i] \notin CompletionStrings
                /\ IsSchemaString(validationErrors[i])
    /\ (Produced /\ CompletionErrors(watchedValues) # <<>>) =>
            validationErrors = CompletionErrors(watchedValues)

C7_Witness ==
    /\ pipeline = "SchemaFailure"
    /\ Len(validationErrors) = 1
    /\ Len(QuestSchemaIssues(questBuilder.quest)) = 2

\* C8: a Schema failure with n issues is reported as n entries
\* "<field path>: <message>", in the Schema's issue order.
C8_OneEntryPerIssue ==
    pipeline = "SchemaFailure" =>
        validationErrors =
            [i \in 1..Len(QuestSchemaIssues(questBuilder.quest)) |->
                FormatIssue(QuestSchemaIssues(questBuilder.quest)[i])]

\* C10: no snapshot makes an error escape the transform.
C10_NoFault == fault = "none"

\* the completion requirements a snapshot fails to meet
TitleMissing(wv) == ~Truthy(wv.Title)
DescriptionMissing(wv) == ~Truthy(wv.Description)
RewardMissing(wv) == ~SomeRewardQualifies(wv)

MissingCount(wv) ==
    (IF TitleMissing(wv) THEN 1 ELSE 0)
    + (IF DescriptionMissing(wv) THEN 1 ELSE 0)
    + (IF RewardMissing(wv) THEN 1 ELSE 0)

InErrors(e) == \E i \in 1..Len(validationErrors) : validationErrors[i] = e

\* C11: whenever the title is empty, the description is empty or no reward
\* qualifies, the quest is null and the errors list holds exactly one plain
\* string per missing requirement: "Title is required", "Description is
\* required", and a reward message when no reward qualifies.
C11_OneStringPerMissing ==
    MissingCount(watchedValues) > 0 =>
        /\ quest = Null
        /\ Len(validationErrors) = MissingCount(watchedValues)
        /\ TitleMissing(watchedValues) <=> InErrors(TitleRequired)
        /\ DescriptionMissing(watchedValues) <=> InErrors(DescriptionRequired)
        /\ RewardMissing(watchedValues) <=>
                (InErrors(RewardPoolRequired) \/ InErrors(RewardContentRequired))

\* the checklist strings among the reported errors
CompletionCount(errors) ==
    Cardinality({i \in 1..Len(errors) : errors[i] \in CompletionStrings})

AllPresent(wv) == MissingCount(wv) = 0

\* an edit of one field that supplies a requirement missing before it
SuppliesTitle(old, new) ==
    /\ TitleMissing(old) /\ ~TitleMissing(new)
    /\ new = [old EXCEPT !.Title = new.Title]
SuppliesDescription(old, new) ==
    /\ DescriptionMissing(old) /\ ~DescriptionMissing(new)
    /\ new = [old EXCEPT !.Description = new.Description]
SuppliesReward(old, new) ==
    /\ \/ RewardMissing(old) /\ ~RewardMissing(new)
       \/ Len(old.RewardPool.a) = 0 /\ Len(new.RewardPool.a) > 0
    /\ new = [old EXCEPT !.RewardPool = new.RewardPool]

\* C12: an edit that supplies one missing requirement (title, description or
\* a reward) and changes nothing else never raises the number of completion
\* errors; and whenever all three are present a build is attempted and no
\* completion error is reported.
C12_MonotonicCompleteness ==
    /\ [][ ( \/ SuppliesTitle(watchedValues, watchedValues')
             \/ SuppliesDescription(watchedValues, watchedValues')
             \/ SuppliesReward(watchedValues, watchedValues') )
           => CompletionCount(validationErrors') <= CompletionCount(validationErrors)
         ]_vars
    /\ [](AllPresent(watchedValues) =>
            (BuildAttempted /\ CompletionCount(validationErrors) = 0))

\* the last missing requirement was supplied to a pool holding both a
\* qualifying and an empty reward: the build is attempted
C12_Witness ==
    /\ AllPresent(watchedValues)
    /\ BuildAttempted
    /\ Len(watchedValues.RewardPool.a) = 2
    /\ \E i \in 1..2 : ~QualifyingReward(watchedValues.RewardPool.a[i])
    /\ validationErrors = <<>>

\* a condition fragment whose projection the Schema accepts
WellFormedCondition(condition) ==
    /\ condition.type \in {"Fetch", "Elimination"}
    /\ Ge(condition.sequenceIndex, 0)
    /\ condition.items # <<>>
    /\ \A i \in 1..Len(condition.items) :
            /\ IsNonEmptyString(condition.items[i].name)
            /\ Ge(condition.items[i].amount, 1)

\* valid basic fields, a qualifying reward, conditions the Schema accepts
ValidSnapshot(wv) ==
    /\ IsNonEmptyString(wv.Title)
    /\ IsNonEmptyString(wv.Description)
    /\ SomeRewardQualifies(wv)
    /\ \A i \in 1..Len(wv.Conditions.a) : WellFormedCondition(wv.Conditions.a[i])

\* C13: no failure is terminal: whatever the state before it, an edit that
\* leads to a snapshot with valid basic fields, a qualifying reward and a
\* Schema-valid draft yields a Built result, a non-null quest and no errors,
\* and the quest is made of the current snapshot alone.
C13_NoTerminalFailure ==
    [][ ValidSnapshot(watchedValues') =>
            /\ pipeline' = "Built"
            /\ quest' # Null
            /\ validationErrors' = <<>>
            /\ quest'[1].Title = watchedValues'.Title
            /\ quest'[1].Description = watchedValues'.Description
            /\ Len(quest'[1].RewardPool) <= Len(watchedValues'.RewardPool.a)
            /\ Len(quest'[1].Conditions) =
                    IF Len(watchedValues'.Conditions.a) = 0 THEN 1
                    ELSE Len(watchedValues'.Conditions.a)
      ]_vars

\* a Built result right after a run that ended in a Schema failure
C13_Witness ==
    /\ before = "SchemaFailure"
    /\ pipeline = "Built"
    /\ quest # Null
    /\ validationErrors = <<>>
    /\ ValidSnapshot(watchedValues)

\* C14: the text the panel shows for a Quest produced by the transform,
\* submitted to the load path, is accepted and delivers a Quest equal to it.
C14_RoundTrip ==
    [][ (handleLoadQuest /\ quest # Null /\ editorValue = jsonString(quest)) =>
            /\ loaded' = Append(loaded, quest[1])
            /\ loadError' = Null
            /\ ~isLoading'
      ]_vars

\* the Quest with an escaped title, a time limit, two pools and two
\* conditions came back from its own text
C14_Witness ==
    /\ quest # Null
    /\ quest[1].Title = Quoted
    /\ Len(quest[1].Conditions) = 2
    /\ loaded # <<>>
    /\ loaded[Len(loaded)] = quest[1]
    /\ loadError = Null
    /\ ~isLoading

\* C15: a load of malformed JSON, or of JSON the Schema rejects, never calls
\* onLoadQuest, leaves the form values and the current quest as they were,
\* and reports one error string, "Invalid JSON: ..." or "Invalid quest
\* format: ...".
C15_LoadAllOrNothing ==
    [][ ( /\ handleLoadQuest
          /\ editorValue \in MalformedTexts(quest) \cup InvalidQuestTexts ) =>
            /\ loaded' = loaded
            /\ watchedValues' = watchedValues
            /\ quest' = quest
            /\ loadError' # Null
            /\ Head(loadError'[1]) =
                    IF editorValue \in MalformedTexts(quest)
                    THEN "Invalid JSON: " ELSE "Invalid quest format: "
      ]_vars

\* a Quest text without its title was rejected by the Schema
C15_Witness ==
    /\ loadError # Null
    /\ Head(loadError[1]) = "Invalid quest format: "
    /\ Len(loadError[1]) > 1
    /\ editorValue \in InvalidQuestTexts
    /\ Len(editorValue) > 2
    /\ loaded = <<>>
    /\ ~isLoading

\* C16: in the assembled application a load of JSON text that parses and
\* passes the Schema replaces the whole AuthoringState with the fields of the
\* loaded Quest; the application therefore gives the panel the callback
\* through which an accepted Quest reaches the form.
C16_LoadReplacesState ==
    /\ onLoadQuest # "undefined"
    /\ loaded # <<>> => watchedValues.Title = loaded[Len(loaded)].Title

(* ----------------------- QuestBuilder contract ------------------------- *)
ConditionAdds ==
    {"addCondition", "addFetchCondition", "addEliminationCondition",
     "addInteractionCondition"}

RewardAdds == {"addReward", "addCurrencyReward"}

\* the discriminator of the fragment each add call puts in the draft
Discriminator(call) ==
    CASE call = "addEliminationCondition" -> "Elimination"
      [] call = "addInteractionCondition" -> "Interaction"
      [] OTHER -> "Fetch"

\* new is old with exactly one element more, at the end
AppendsOne(old, new) ==
    /\ Len(new) = Len(old) + 1
    /\ SubSeq(new, 1, Len(old)) = old

\* C17: on a QuestBuilder each scalar setter leaves the draft with the value
\* of this call in its field, whatever an earlier call of the same setter had
\* set, and changes nothing else; each add call leaves its sequence with the
\* fragments it had, in their order, and exactly one new fragment after them,
\* and changes nothing else.
C17_SettersOverrideAddsAppend ==
    [][/\ returned'.call = "withNPC" =>
            draft' = [draft EXCEPT !.AssociatedNpc = returned'.arg]
       /\ returned'.call = "withTier" =>
            draft' = [draft EXCEPT !.Tier = returned'.arg]
       /\ returned'.call = "withTitle" =>
            draft' = [draft EXCEPT !.Title = returned'.arg]
       /\ returned'.call = "withDescription" =>
            draft' = [draft EXCEPT !.Description = returned'.arg]
       /\ returned'.call = "withTimeLimit" =>
            draft' = [draft EXCEPT !.TimeLimitHours = returned'.arg]
       /\ returned'.call \in ConditionAdds =>
            /\ AppendsOne(draft.Conditions, draft'.Conditions)
            /\ draft'.Conditions[Len(draft'.Conditions)].Type =
                    Discriminator(returned'.call)
            /\ draft' = [draft EXCEPT !.Conditions = draft'.Conditions]
       /\ returned'.call \in RewardAdds =>
            /\ AppendsOne(draft.RewardPool, draft'.RewardPool)
            /\ draft' = [draft EXCEPT !.RewardPool = draft'.RewardPool]
      ]_vars

\* two add calls of different kinds have left their fragments in call order
C17_Witness ==
    /\ returned.call = "addFetchCondition"
    /\ Len(draft.Conditions) = 2
    /\ draft.Conditions[1].Type = "Elimination"
    /\ draft.Conditions[2].Type = "Fetch"
    /\ draft.Title = Empty
    /\ draft.RewardPool = <<>>

\* C18: in every QuestBuilder state validate() reports success exactly when
\* build() returns a Quest, and reports failure with a non-empty error list
\* exactly when build() throws and returns no object; a call of either leaves
\* the draft as it was and returns what the draft alone determines, so order
\* and repetition do not change the outcomes.
C18_ValidateAndBuildAgree ==
    /\ [](/\ validate(questBuilder).success <=> build(questBuilder).quest # Null
          /\ ~validate(questBuilder).success <=>
                /\ build(questBuilder).quest = Null
                /\ build(questBuilder).thrown # Null
          /\ validate(questBuilder).success <=> validate(questBuilder).errors = <<>>
          /\ build(questBuilder).quest # Null =>
                build(questBuilder).quest = Some(draft))
    /\ [][/\ returned'.call = "validate" =>
                /\ questBuilder' = questBuilder
                /\ returned'.success = validate(questBuilder).success
                /\ returned'.errors = validate(questBuilder).errors
                /\ returned'.thrown = Null
          /\ returned'.call = "build" =>
                /\ questBuilder' = questBuilder
                /\ returned'.quest = build(questBuilder).quest
                /\ returned'.thrown = build(questBuilder).thrown
                /\ returned'.quest # Null <=> validate(questBuilder).success
         ]_vars

\* build() has returned the Quest of a draft that validate() accepts
C18_Witness ==
    /\ returned.call = "build"
    /\ returned.quest = Some(draft)
    /\ returned.thrown = Null
    /\ validate(questBuilder).success
    /\ Len(draft.Conditions) = 1
    /\ Len(draft.RewardPool) = 1

(* --------------------- numeric projection rule ------------------------- *)
\* the run of the effect got as far as constructing a builder
BuilderConstructed ==
    pipeline \in {"Built", "SchemaFailure", "BuilderError", "NoValidRewards"}

\* a field of the draft holds the value iff the value is a number > 0, and
\* is absent otherwise
Projected(value, field) ==
    IF value.k = "number" /\ value.n > 0 THEN field = value ELSE field = Undefined

ItemGiven(trade) == Truthy(trade.item) /\ Truthy(Trim(trade.item))

ProjectedDeals(tradeDeals, TradeDeals) ==
    LET given == SelectSeq(tradeDeals, ItemGiven) IN
    /\ Len(TradeDeals) = Len(given)
    /\ \A i \in 1..Len(given) :
        /\ Projected(given[i].price, TradeDeals[i].Price)
        /\ Projected(given[i].amount, TradeDeals[i].Amount)
        /\ Projected(given[i].fame, TradeDeals[i].Fame)

\* C19: in the draft of a run that constructed a builder, the time limit,
\* every included reward's currencyNormal, currencyGold and fame, and every
\* included trade deal's price, amount and fame are absent when the
\* AuthoringState's value is 0, NaN or undefined, and equal to that value
\* when it is a number > 0; no such field of the draft ever holds 0.
C19_NumericProjection ==
    BuilderConstructed =>
        LET included == SelectSeq(watchedValues.RewardPool.a, hasAnything) IN
        /\ Projected(watchedValues.TimeLimitHours, draft.TimeLimitHours)
        /\ Len(draft.RewardPool) = Len(included)
        /\ \A i \in 1..Len(included) :
            /\ Projected(included[i].currencyNormal, draft.RewardPool[i].CurrencyNormal)
            /\ Projected(included[i].currencyGold, draft.RewardPool[i].CurrencyGold)
            /\ Projected(included[i].fame, draft.RewardPool[i].Fame)
            /\ ProjectedDeals(included[i].tradeDeals, draft.RewardPool[i].TradeDeals)

\* a run has projected a time limit of 0, a trade deal priced 0 with fame 0
\* and amount 1, and a gold amount of 3
C19_Witness ==
    /\ BuilderConstructed
    /\ watchedValues.TimeLimitHours = Num(0)
    /\ draft.TimeLimitHours = Undefined
    /\ watchedValues.RewardPool.a = <<TradeReward>>
    /\ draft.RewardPool[1].CurrencyGold = Num(3)
    /\ draft.RewardPool[1].CurrencyNormal = Undefined
    /\ Len(draft.RewardPool[1].TradeDeals) = 1
    /\ draft.RewardPool[1].TradeDeals[1].Price = Undefined
    /\ draft.RewardPool[1].TradeDeals[1].Fame = Undefined
    /\ draft.RewardPool[1].TradeDeals[1].Amount = Num(1)

(* ----------------------- Interaction conditions ------------------------ *)
\* the run of the effect walked the condition list of the snapshot
ConditionsWalked ==
    /\ pipeline \in {"Built", "SchemaFailure", "BuilderError"}
    /\ watchedValues.Conditions.k = "array"
    /\ Len(watchedValues.Conditions.a) > 0

\* an Interaction fragment whose object is neither empty nor whitespace only
NonBlankObject(condition) ==
    /\ condition.type = "Interaction"
    /\ IsNonEmptyString(condition.interactionObject)

IsInteraction(c) == c.Type = "Interaction"

\* C20: the Interaction conditions of the draft are, in order, the Interaction
\* fragments of the snapshot whose interactionObject is non-blank, and each
\* carries its fragment's interactionObject, a non-empty string.
C20_InteractionObjectCarried ==
    ConditionsWalked =>
        LET qualifying == SelectSeq(watchedValues.Conditions.a, NonBlankObject)
            inDraft == SelectSeq(draft.Conditions, IsInteraction)
        IN /\ Len(inDraft) = Len(qualifying)
           /\ \A i \in 1..Len(inDraft) :
                /\ inDraft[i].InteractionObject = qualifying[i].interactionObject
                /\ IsNonEmptyString(inDraft[i].InteractionObject)

(* ------------------------ conditions in order -------------------------- *)
\* condition c of the draft is the projection of fragment f: its kind, its
\* sequenceIndex, its items or targets, autoComplete and caption when set
ProjectsCondition(f, c) ==
    /\ c.Type = f.type
    /\ c.SequenceIndex = f.sequenceIndex
    /\ f.type \in {"Fetch", "Elimination"} => c.Items = f.items
    /\ c.CanBeAutoCompleted = Bool(Truthy(f.canBeAutoCompleted))
    /\ c.TrackingCaption =
            IF Truthy(f.trackingCaption) THEN f.trackingCaption ELSE Undefined

\* C21: when the condition list is non-empty, the draft's Conditions are, in
\* authoring order, the projections of the qualifying fragments and nothing
\* else: non-qualifying fragments contribute no condition.
C21_QualifyingConditionsInOrder ==
    ConditionsWalked =>
        LET qualifying == SelectSeq(watchedValues.Conditions.a, QualifyingCondition)
        IN /\ Len(draft.Conditions) = Len(qualifying)
           /\ \A i \in 1..Len(qualifying) :
                ProjectsCondition(qualifying[i], draft.Conditions[i])

(* ------------------------- the quest displayed ------------------------- *)
\* JsonPreview line 149: value={isLoading ? editorValue : jsonString}
Shown == IF isLoading THEN editorValue ELSE jsonString(quest)

NothingBuilt == Comment("// Quest will appear here as you build it...")

\* C22: after every run the quest held by the application, and shown in the
\* panel, is the one outcome of the run on the latest snapshot: the Quest
\* built from that snapshot when the run ended Built, and null, with nothing
\* of an earlier snapshot displayed, when the run found the snapshot
\* incomplete or the build failed.
C22_LatestResultDisplayed ==
    Produced =>
        /\ quest = Transform(watchedValues).quest
        /\ Shown = jsonString(Transform(watchedValues).quest)
        /\ pipeline = "Built" =>
            /\ quest = Some(draft)
            /\ quest[1].Title = watchedValues.Title
            /\ quest[1].Description = watchedValues.Description
        /\ pipeline # "Built" =>
            /\ quest = Null
            /\ Shown = NothingBuilt

\* the run before built a Quest, the latest run did not, and nothing is shown
C22_Witness ==
    /\ before = "Built"
    /\ pipeline \in {"Incomplete", "SchemaFailure"}
    /\ quest = Null
    /\ Shown = NothingBuilt

(* -------------------------- rewards in order --------------------------- *)
AmountOrAbsent(value) == IF Gt(value, 0) THEN value ELSE Undefined

SkillCounts(skill) == Gt(skill.experience, 0)

\* the pool a reward fragment projects to, from the fragment alone
PoolOf(fragment) ==
    LET skills == SelectSeq(fragment.skills, SkillCounts)
        deals == SelectSeq(fragment.tradeDeals, ItemGiven)
    IN [CurrencyNormal |-> AmountOrAbsent(fragment.currencyNormal),
        CurrencyGold |-> AmountOrAbsent(fragment.currencyGold),
        Fame |-> AmountOrAbsent(fragment.fame),
        Skills |-> [i \in 1..Len(skills) |->
                        [Skill |-> skills[i].skill,
                         Experience |-> skills[i].experience]],
        TradeDeals |-> [i \in 1..Len(deals) |->
                        [Item |-> deals[i].item,
                         Price |-> AmountOrAbsent(deals[i].price),
                         Amount |-> AmountOrAbsent(deals[i].amount),
                         Fame |-> AmountOrAbsent(deals[i].fame),
                         AllowExcluded |-> deals[i].allowExcluded]]]

\* C23: the draft's RewardPool holds, in authoring order, one pool for each
\* reward fragment that passes the inclusion test, and each pool is what its
\* own fragment projects to: the currency values > 0, the skills with
\* experience > 0 and the trade deals with a non-blank item, in fragment
\* order, and nothing of any other fragment.
C23_OnePoolPerIncludedReward ==
    BuilderConstructed =>
        LET included == SelectSeq(watchedValues.RewardPool.a, hasAnything) IN
        /\ Len(draft.RewardPool) = Len(included)
        /\ \A i \in 1..Len(included) : draft.RewardPool[i] = PoolOf(included[i])

\* two included fragments, one with skills and one with trade deals, each
\* projected to its own pool
C23_Witness ==
    /\ BuilderConstructed
    /\ watchedValues.RewardPool.a = <<SkillReward, TradeReward>>
    /\ Len(draft.RewardPool) = 2
    /\ Len(draft.RewardPool[1].Skills) = 1
    /\ draft.RewardPool[1].TradeDeals = <<>>
    /\ draft.RewardPool[2].Skills = <<>>
    /\ Len(draft.RewardPool[2].TradeDeals) = 1
    /\ draft.RewardPool[2].CurrencyNormal = Undefined

(* --------------------- QuestBuilderForm: pre-fill ---------------------- *)
\* x || fallback
OrElse(x, fallback) == IF Truthy(x) THEN x ELSE fallback

\* lines 118-134: one reward of preFilledQuest as form data
RewardFormData(reward) ==
    [currencyNormal |-> reward.CurrencyNormal,
     currencyGold |-> reward.CurrencyGold,
     fame |-> reward.Fame,
     skills |-> [i \in 1..Len(reward.Skills) |->
                    [skill |-> reward.Skills[i].Skill,
                     experience |-> reward.Skills[i].Experience]],
     tradeDeals |-> [i \in 1..Len(reward.TradeDeals) |->
                    [item |-> reward.TradeDeals[i].Item,
                     price |-> reward.TradeDeals[i].Price,
                     amount |-> reward.TradeDeals[i].Amount,
                     fame |-> reward.TradeDeals[i].Fame,
                     allowExcluded |-> reward.TradeDeals[i].AllowExcluded]]]

\* lines 136-186: one condition of preFilledQuest as form data.  A Fetch
\* item gets the amount 1 whatever the Quest says (line 145); an Elimination
\* target keeps its amount, or 1 (line 157).
ConditionFormData(condition) ==
    IF condition.Type = "Fetch"
    THEN [type |-> "Fetch", sequenceIndex |-> condition.SequenceIndex,
          items |-> [i \in 1..Len(condition.Items) |->
                        [name |-> condition.Items[i].name, amount |-> Num(1)]],
          interactionObject |-> Undefined,
          canBeAutoCompleted |-> condition.CanBeAutoCompleted,
          trackingCaption |-> OrElse(condition.TrackingCaption, Empty)]
    ELSE IF condition.Type = "Elimination"
    THEN [type |-> "Elimination", sequenceIndex |-> condition.SequenceIndex,
          items |-> [i \in 1..Len(condition.Items) |->
                        [name |-> condition.Items[i].name,
                         amount |-> OrElse(condition.Items[i].amount, Num(1))]],
          interactionObject |-> Undefined,
          canBeAutoCompleted |-> condition.CanBeAutoCompleted,
          trackingCaption |-> OrElse(condition.TrackingCaption, Empty)]
    ELSE IF condition.Type = "Interaction"
    THEN [type |-> "Interaction", sequenceIndex |-> condition.SequenceIndex,
          items |-> <<>>,
          interactionObject |-> OrElse(condition.InteractionObject, Empty),
          canBeAutoCompleted |-> condition.CanBeAutoCompleted,
          trackingCaption |-> OrElse(condition.TrackingCaption, Empty)]
    ELSE [type |-> "Fetch", sequenceIndex |-> OrElse(condition.SequenceIndex, Num(0)),
          items |-> <<>>,
          interactionObject |-> Undefined,
          canBeAutoCompleted |-> OrElse(condition.CanBeAutoCompleted, Bool(FALSE)),
          trackingCaption |-> OrElse(condition.TrackingCaption, Empty)]

\* lines 111-187: const formData = { ... }
formData(preFilledQuest) ==
    [AssociatedNpc |-> OrElse(preFilledQuest.AssociatedNpc, Bartender),
     Tier |-> preFilledQuest.Tier,
     Title |-> preFilledQuest.Title,
     Description |-> preFilledQuest.Description,
     TimeLimitHours |-> preFilledQuest.TimeLimitHours,
     RewardPool |-> Arr([i \in 1..Len(preFilledQuest.RewardPool) |->
                            RewardFormData(preFilledQuest.RewardPool[i])]),
     Conditions |-> Arr([i \in 1..Len(preFilledQuest.Conditions) |->
                            ConditionFormData(preFilledQuest.Conditions[i])])]

\* the parent hands the form the Quest its onLoadQuest was given last
preFilledQuest == IF loaded = <<>> THEN Null ELSE Some(loaded[Len(loaded)])

\* The effects of the first commit, in declaration order: the pre-fill effect
\* resets the form to formData (line 189), the transform effect runs on the
\* snapshot of that render, the default values.
PreFillEffect ==
    /\ pipeline = "Mounted"
    /\ preFilledQuest # Null
    /\ LET r == Transform(defaultValues) IN
        /\ quest' = r.quest
        /\ validationErrors' = r.errors
        /\ questBuilder' = r.builder
        /\ pipeline' = r.pipeline
    /\ before' = pipeline
    /\ fault' = "none"
    /\ watchedValues' = formData(preFilledQuest[1])
    /\ UNCHANGED <<renders, panel, returned>>

\* the render that reset() causes, and any later one
RenderPreFilled ==
    /\ pipeline # "Mounted"
    /\ Render

\* Quests the Schema accepts
FetchTwoApples ==
    [Type |-> "Fetch", SequenceIndex |-> Num(0),
     Items |-> <<[name |-> Apple, amount |-> Num(2)]>>,
     InteractionObject |-> Undefined, CanBeAutoCompleted |-> Bool(FALSE),
     TrackingCaption |-> Undefined]
FetchOneApple == [FetchTwoApples EXCEPT !.Items = <<[name |-> Apple, amount |-> Num(1)]>>]
EliminateThreePuppets ==
    [Type |-> "Elimination", SequenceIndex |-> Num(1),
     Items |-> <<[name |-> Puppet, amount |-> Num(3)]>>,
     InteractionObject |-> Undefined, CanBeAutoCompleted |-> Bool(TRUE),
     TrackingCaption |-> Caption]
InteractWithDoor ==
    [Type |-> "Interaction", SequenceIndex |-> Num(2), Items |-> <<>>,
     InteractionObject |-> Door, CanBeAutoCompleted |-> Bool(FALSE),
     TrackingCaption |-> Undefined]

QuestConditions ==
    {FetchOneApple, FetchTwoApples, EliminateThreePuppets, InteractWithDoor}

QuestRewards ==
    {RewardCallback(reward, NewRewardBuilder) :
        reward \in {FameReward, SkillReward, TradeReward}}

PreFilledQuests ==
    {q \in [AssociatedNpc : {Bartender},
            Tier : {Num(1)},
            Title : {GetApples},
            Description : {BringApples},
            TimeLimitHours : {Undefined, Num(2)},
            RewardPool : {<<r>> : r \in QuestRewards}
                         \cup {<<r1, r2>> : r1 \in QuestRewards, r2 \in QuestRewards},
            Conditions : {<<c>> : c \in QuestConditions}
                         \cup {<<c1, c2>> : c1 \in QuestConditions,
                                            c2 \in QuestConditions}] :
        QuestSchemaIssues(q) = <<>>}

\* the form mounted with a preFilledQuest
InitPreFill ==
    /\ watchedValues = defaultValues
    /\ quest = Null
    /\ validationErrors = <<>>
    /\ questBuilder = NoBuilder
    /\ pipeline = "Mounted"
    /\ before = "Mounted"
    /\ fault = "none"
    /\ renders = 0
    /\ onLoadQuest = "given"
    /\ isLoading = FALSE
    /\ loadError = Null
    /\ editorValue = EmptyText
    /\ \E q \in PreFilledQuests : loaded = <<q>>
    /\ returned = NoCall

NextPreFill ==
    \/ PreFillEffect
    \/ RenderPreFilled

SpecPreFill == InitPreFill /\ [][NextPreFill]_vars

\* C24: once the transform has run on the AuthoringState that the pre-fill
\* made of a Schema-valid Quest, the Quest it reports equals that Quest,
\* conditions with their kinds, indexes, items and amounts and interaction
\* objects, reward pools with their currency, skills and trade deals.
C24_PreFillRoundTrip ==
    (preFilledQuest # Null /\ renders >= 1) => quest = preFilledQuest

(* --------------------------- the JSON panel ---------------------------- *)
\* a load attempt that delivered a Quest, and one that did not
LoadSucceeded == handleLoadQuest /\ loaded' # loaded
LoadFailed == handleLoadQuest /\ loaded' = loaded

\* C25: in the JSON panel a step leaves loadError non-null only if it is a
\* load attempt that failed; start-load, cancel and a successful load leave
\* it null; cancel and a successful load leave load mode with the editor
\* text cleared; the editor text changes only in load mode, or on entering it.
C25_PanelLoadMode ==
    [][/\ loadError' # Null => LoadFailed
       /\ (handleStartLoad \/ handleCancelLoad \/ LoadSucceeded) => loadError' = Null
       /\ (handleCancelLoad \/ LoadSucceeded) =>
            /\ ~isLoading'
            /\ editorValue' = EmptyText
       /\ editorValue' # editorValue => isLoading \/ handleStartLoad
       /\ (~isLoading /\ ~isLoading') => editorValue' = editorValue
      ]_vars

\* a Quest was loaded, load mode entered again, and the next attempt failed
C25_Witness ==
    /\ loaded # <<>>
    /\ loadError # Null
    /\ ~isLoading
    /\ editorValue # EmptyText

\* C26: preview() leaves the builder as it was, and so does every later
\* change of the object it returned, appends to and removals from its
\* RewardPool and Conditions included: validate() and build() see the same
\* draft after the change as before it.
C26_PreviewIndependent ==
    [][returned'.call = "preview" =>
            /\ questBuilder' = questBuilder
            /\ validate(questBuilder') = validate(questBuilder)
            /\ build(questBuilder') = build(questBuilder)
      ]_vars

====
